---- MODULE Spec2Model ----
(***************************************************************************)
(* EconSentinel dashboard (src/app.py): the Streamlit script is re-run     *)
(* from top to bottom on every interaction.  One run ("render pass")       *)
(* loads data.csv through the st.cache_data cache, reads the three God     *)
(* Mode controls, derives Live_Risk, color and map_size for every row and  *)
(* renders the page.                                                       *)
(*                                                                         *)
(* Values of a table cell are records [k, v, d]:                           *)
(*   k = "num"    a number v / d (d = 1 unless produced by a division)     *)
(*   k = "nan"    a missing value (pandas NaN)                             *)
(*   k = "str"    a non-numeric string                                     *)
(*   k = "absent" the column does not exist in the frame                   *)
(*   k = "KeyError" / "TypeError"  the Python exception an expression      *)
(*                raised instead of producing a value                      *)
(***************************************************************************)
EXTENDS Integers, Sequences, FiniteSets, TLC

VARIABLES data_csv,    \* content of the file data.csv
          cache,       \* the st.cache_data entry of load_data()
          df,          \* the script's data frame of the current pass
          widgets,     \* session state of the three sidebar controls
          fuel_shock,  \* script global bound at line 58
          tax_hike,    \* script global bound at line 59
          subsidy,     \* script global bound at line 60
          pc,          \* position of the script in the current pass
          errors,      \* st.error("CRITICAL ERROR ...") reports of this pass
          exc,         \* uncaught exception that ended this pass ("" if none)
          passes,      \* number of script runs started in this session
          shocked      \* history: an earlier pass ran with non-default controls

vars == <<data_csv, cache, df, widgets, fuel_shock, tax_hike, subsidy,
          pc, errors, exc, passes, shocked>>

(* ------------------------------ bounds --------------------------------- *)
MaxRows == 2
MaxPasses == 3
MaxBaseRisk == 105

(* ------------------------- program constants --------------------------- *)
FuelShockMin == -10
FuelShockMax == 50
FuelShockDefault == 0
TaxHikeMin == 0
TaxHikeMax == 10
TaxHikeDefault == 0
MapSizeDivisor == 30000

(* ------------------------------ cells ---------------------------------- *)
Num(n) == [k |-> "num", v |-> n, d |-> 1]
NaN == [k |-> "nan", v |-> 0, d |-> 1]
Str == [k |-> "str", v |-> 0, d |-> 1]
Absent == [k |-> "absent", v |-> 0, d |-> 1]
Raise(e) == [k |-> e, v |-> 0, d |-> 1]

IsRaise(x) == x.k \in {"KeyError", "TypeError"}

\* row['Base_Risk'] on a row Series: KeyError when the column is not there
GetItem(row, col) ==
    IF row[col].k = "absent" THEN Raise("KeyError") ELSE row[col]

\* base += n  /  base -= n  on a number, a NaN or a str
Add(x, n) ==
    CASE IsRaise(x)  -> x
      [] x.k = "num" -> [k |-> "num", v |-> x.v + n * x.d, d |-> x.d]
      [] x.k = "nan" -> NaN
      [] OTHER       -> Raise("TypeError")

\* risk >= n on a Live_Risk value (a number or NaN): False for NaN
Ge(x, n) ==
    CASE x.k = "num" -> x.v >= n * x.d
      [] OTHER       -> FALSE

\* Python's builtin min(a, b) with b an int: b if b < a else a.
\* NaN compares False with everything, so min(nan, 100) is nan.
PyMin(a, b) ==
    CASE IsRaise(a)  -> a
      [] a.k = "num" -> IF b * a.d < a.v THEN Num(b) ELSE a
      [] a.k = "nan" -> a
      [] OTHER       -> Raise("TypeError")

(* ------------------- 4. THE AI LOGIC (Risk Calculation) ---------------- *)
calculate_live_risk_noclamp(row, fs, th, sub) ==
    LET base0 == GetItem(row, "Base_Risk")
        base1 == IF fs > 5 THEN Add(base0, 10) ELSE base0
        base2 == IF fs > 20 THEN Add(base1, 25) ELSE base1
        base3 == IF th > 2 THEN Add(base2, th * 2) ELSE base2
        base4 == IF sub THEN Add(base3, -20) ELSE base3
    IN  base4

calculate_live_risk_inverted_subsidy(row, fs, th, sub) ==
    LET base0 == GetItem(row, "Base_Risk")
        base1 == IF fs > 5 THEN Add(base0, 10) ELSE base0
        base2 == IF fs > 20 THEN Add(base1, 25) ELSE base1
        base3 == IF th > 2 THEN Add(base2, th * 2) ELSE base2
        base4 == IF ~sub THEN Add(base3, -20) ELSE base3
    IN  PyMin(base4, 100)

calculate_live_risk_inclusive(row, fs, th, sub) ==
    LET base0 == GetItem(row, "Base_Risk")
        base1 == IF fs >= 5 THEN Add(base0, 10) ELSE base0
        base2 == IF fs >= 20 THEN Add(base1, 25) ELSE base1
        base3 == IF th > 2 THEN Add(base2, th * 2) ELSE base2
        base4 == IF sub THEN Add(base3, -20) ELSE base3
    IN  PyMin(base4, 100)

calculate_live_risk_other_revision(row, fs, th, sub) ==
    LET base0 == GetItem(row, "Base_Risk")
        base1 == IF fs > 10 THEN Add(base0, 15) ELSE base0
        base2 == IF fs > 25 THEN Add(base1, 20) ELSE base1
        base3 == IF th > 2 THEN Add(base2, th * 2) ELSE base2
        base4 == IF sub THEN Add(base3, -25) ELSE base3
    IN  PyMin(base4, 100)

calculate_live_risk_subsidy_25(row, fs, th, sub) ==
    LET base0 == GetItem(row, "Base_Risk")
        base1 == IF fs > 5 THEN Add(base0, 10) ELSE base0
        base2 == IF fs > 20 THEN Add(base1, 25) ELSE base1
        base3 == IF th > 2 THEN Add(base2, th * 2) ELSE base2
        base4 == IF sub THEN Add(base3, -25) ELSE base3
    IN  PyMin(base4, 100)

calculate_live_risk_clamp_first(row, fs, th, sub) ==
    LET base0 == GetItem(row, "Base_Risk")
        base1 == IF fs > 5 THEN Add(base0, 10) ELSE base0
        base2 == IF fs > 20 THEN Add(base1, 25) ELSE base1
        base3 == IF th > 2 THEN Add(base2, th * 2) ELSE base2
        base4 == PyMin(base3, 100)
    IN  IF sub THEN Add(base4, -20) ELSE base4

calculate_live_risk(row, fs, th, sub) ==
    LET base0 == GetItem(row, "Base_Risk")
        base1 == IF fs > 5 THEN Add(base0, 10) ELSE base0
        base2 == IF fs > 20 THEN Add(base1, 25) ELSE base1
        base3 == IF th > 2 THEN Add(base2, th * 2) ELSE base2
        base4 == IF sub THEN Add(base3, -20) ELSE base3
    IN  PyMin(base4, 100)

get_color_exclusive(risk) ==
    IF risk.k = "num" /\ risk.v > 75 * risk.d THEN "#FF0000"
    ELSE IF risk.k = "num" /\ risk.v > 50 * risk.d THEN "#FFA500"
    ELSE "#00FF00"

get_color(risk) ==
    IF Ge(risk, 75) THEN "#FF0000"
    ELSE IF Ge(risk, 50) THEN "#FFA500"
    ELSE "#00FF00"

\* df['Population'] / 30000, element-wise true division
TrueDiv(x, n) ==
    CASE x.k = "num" -> [k |-> "num", v |-> x.v, d |-> x.d * n]
      [] OTHER       -> x

(* ------------------------------ frames --------------------------------- *)
NoFrame == [cols |-> {}, rows |-> <<>>]

Row(base, pop) ==
    [Base_Risk |-> base, Population |-> pop,
     Live_Risk |-> Absent, color |-> "absent", map_size |-> Absent]

\* the frame pd.read_csv builds from a parsed file: only the file's columns
FrameOf(file) ==
    [cols |-> file.cols,
     rows |-> [i \in 1..Len(file.rows) |->
                 Row(IF "Base_Risk" \in file.cols
                     THEN file.rows[i].Base_Risk ELSE Absent,
                     IF "Population" \in file.cols
                     THEN file.rows[i].Population ELSE Absent)]]

\* pd.read_csv("data.csv"): raises when the file is missing or unparseable
read_csv(file) ==
    IF file.status = "ok"
    THEN [ok |-> TRUE, frame |-> FrameOf(file)]
    ELSE [ok |-> FALSE, frame |-> NoFrame]

\* @st.cache_data load_data(): a hit returns a fresh copy of the stored
\* frame, a miss runs the body and stores the result unless it raised
load_data(c, file) ==
    IF c.hit THEN [ok |-> TRUE, frame |-> c.value] ELSE read_csv(file)

\* df['Live_Risk'] = <values>
SetLiveRiskAndBase(frame, values) ==
    [cols |-> frame.cols \cup {"Live_Risk"},
     rows |-> [i \in 1..Len(frame.rows) |->
                 [frame.rows[i] EXCEPT !.Live_Risk = values[i],
                                       !.Base_Risk = values[i]]]]

SetLiveRisk(frame, values) ==
    [cols |-> frame.cols \cup {"Live_Risk"},
     rows |-> [i \in 1..Len(frame.rows) |->
                 [frame.rows[i] EXCEPT !.Live_Risk = values[i]]]]

\* df['color'] = df['Live_Risk'].apply(get_color)
SetColor(frame) ==
    [cols |-> frame.cols \cup {"color"},
     rows |-> [i \in 1..Len(frame.rows) |->
                 [frame.rows[i] EXCEPT
                    !.color = get_color(frame.rows[i].Live_Risk)]]]

\* df['map_size'] = df['Population'] / 30000
SetMapSize(frame) ==
    [cols |-> frame.cols \cup {"map_size"},
     rows |-> [i \in 1..Len(frame.rows) |->
                 [frame.rows[i] EXCEPT
                    !.map_size = TrueDiv(frame.rows[i].Population,
                                         MapSizeDivisor)]]]

(* --------------------------- input domains ----------------------------- *)
BaseCells == {NaN, Str, Num(40), Num(95)}
PopCells == {Num(0), Num(45000)}
ColumnSets == {{"Base_Risk", "Population"}, {"Base_Risk"}, {"Population"}}

FileRows ==
    UNION {[1..n -> [Base_Risk : BaseCells, Population : PopCells]] :
             n \in 1..MaxRows}

\* pandas reads only the columns the file has
Blank(cols, rows) ==
    [i \in 1..Len(rows) |->
       [Base_Risk  |-> IF "Base_Risk" \in cols
                       THEN rows[i].Base_Risk ELSE Absent,
        Population |-> IF "Population" \in cols
                       THEN rows[i].Population ELSE Absent]]

Files ==
    {[status |-> s, cols |-> {}, rows |-> <<>>] :
        s \in {"missing", "unparseable"}}
    \cup {[status |-> "ok", cols |-> c, rows |-> Blank(c, r)] :
            c \in ColumnSets, r \in FileRows}

FuelSamples == {FuelShockDefault, 6, 21}
TaxSamples == {TaxHikeDefault, 3}

DefaultWidgets ==
    [fuel_shock |-> FuelShockDefault, tax_hike |-> TaxHikeDefault,
     subsidy |-> FALSE]

Terminal == {"done", "stopped", "exception"}

(* ------------------------------ the app -------------------------------- *)
Init ==
    /\ data_csv \in Files
    /\ cache = [hit |-> FALSE, value |-> NoFrame]
    /\ df = NoFrame
    /\ widgets = DefaultWidgets
    /\ fuel_shock = FuelShockDefault
    /\ tax_hike = TaxHikeDefault
    /\ subsidy = FALSE
    /\ pc = "load"
    /\ errors = 0
    /\ exc = ""
    /\ passes = 1
    /\ shocked = FALSE

\* lines 19-23: try: df = load_data()  except: st.error(...); st.stop()
LoadData ==
    /\ pc = "load"
    /\ LET r == load_data(cache, data_csv)
       IN  IF r.ok
           THEN /\ df' = r.frame
                /\ cache' = [hit |-> TRUE, value |-> r.frame]
                /\ pc' = "controls"
                /\ errors' = errors
           ELSE /\ errors' = errors + 1
                /\ pc' = "stopped"
                /\ UNCHANGED <<df, cache>>
    /\ UNCHANGED <<data_csv, widgets, fuel_shock, tax_hike, subsidy, exc,
                   passes, shocked>>

\* lines 58-60: the sliders and the toggle return the session's values
ReadControls ==
    /\ pc = "controls"
    /\ fuel_shock' = widgets.fuel_shock
    /\ tax_hike' = widgets.tax_hike
    /\ subsidy' = widgets.subsidy
    /\ pc' = "risk"
    /\ UNCHANGED <<data_csv, cache, df, widgets, errors, exc, passes, shocked>>

\* line 85: df['Live_Risk'] = df.apply(calculate_live_risk, axis=1)
\* An exception in any row ends the pass before the column is assigned.
\* (A non-numeric cell makes pandas read the whole column as strings, so
\* the first row already raises TypeError: the outcome is the same.)
ComputeLiveRisk ==
    /\ pc = "risk"
    /\ LET values == [i \in 1..Len(df.rows) |->
                        calculate_live_risk(df.rows[i], fuel_shock,
                                            tax_hike, subsidy)]
           raised == {i \in 1..Len(df.rows) : IsRaise(values[i])}
       IN  IF raised = {}
           THEN /\ df' = SetLiveRisk(df, values)
                /\ pc' = "color"
                /\ exc' = exc
           ELSE /\ exc' = values[CHOOSE i \in raised :
                                   \A j \in raised : i <= j].k
                /\ pc' = "exception"
                /\ df' = df
    /\ UNCHANGED <<data_csv, cache, widgets, fuel_shock, tax_hike, subsidy,
                   errors, passes, shocked>>

\* line 93
ComputeColor ==
    /\ pc = "color"
    /\ df' = SetColor(df)
    /\ pc' = "size"
    /\ UNCHANGED <<data_csv, cache, widgets, fuel_shock, tax_hike, subsidy,
                   errors, exc, passes, shocked>>

\* line 96
ComputeMapSize ==
    /\ pc = "size"
    /\ IF "Population" \in df.cols
       THEN /\ df' = SetMapSize(df)
            /\ pc' = "ui"
            /\ exc' = exc
       ELSE /\ exc' = "KeyError"
            /\ pc' = "exception"
            /\ df' = df
    /\ UNCHANGED <<data_csv, cache, widgets, fuel_shock, tax_hike, subsidy,
                   errors, passes, shocked>>

\* lines 98-175: the page is a pure read of df and the controls
RenderUI ==
    /\ pc = "ui"
    /\ pc' = "done"
    /\ UNCHANGED <<data_csv, cache, df, widgets, fuel_shock, tax_hike,
                   subsidy, errors, exc, passes, shocked>>

\* a new script run: every script global is rebound from scratch
StartPass(w) ==
    /\ passes < MaxPasses
    /\ passes' = passes + 1
    /\ widgets' = w
    /\ shocked' = (shocked \/ (pc # "stopped" /\ widgets # DefaultWidgets))
    /\ df' = NoFrame
    /\ fuel_shock' = FuelShockDefault
    /\ tax_hike' = TaxHikeDefault
    /\ subsidy' = FALSE
    /\ errors' = 0
    /\ exc' = ""
    /\ pc' = "load"
    /\ UNCHANGED <<data_csv, cache>>

\* the user moves a control of the rendered sidebar: Streamlit re-runs
ChangeControls ==
    /\ pc \in {"done", "exception"}
    /\ \E f \in FuelSamples, t \in TaxSamples, s \in BOOLEAN :
          /\ [fuel_shock |-> f, tax_hike |-> t, subsidy |-> s] # widgets
          /\ StartPass([fuel_shock |-> f, tax_hike |-> t, subsidy |-> s])

\* the user re-runs the page with the controls as they are
Rerun ==
    /\ pc \in Terminal
    /\ StartPass(widgets)

Next ==
    \/ LoadData
    \/ ReadControls
    \/ ComputeLiveRisk
    \/ ComputeColor
    \/ ComputeMapSize
    \/ RenderUI
    \/ ChangeControls
    \/ Rerun

Spec == Init /\ [][Next]_vars

(* --------- the risk transform started on every input combination ------- *)
TransformInit ==
    /\ \E b \in 0..MaxBaseRisk :
          data_csv = [status |-> "ok", cols |-> {"Base_Risk", "Population"},
                      rows |-> <<[Base_Risk |-> Num(b),
                                  Population |-> Num(45000)]>>]
    /\ cache = [hit |-> TRUE, value |-> FrameOf(data_csv)]
    /\ df = FrameOf(data_csv)
    /\ \E f \in FuelShockMin..FuelShockMax, t \in TaxHikeMin..TaxHikeMax,
          s \in BOOLEAN :
          /\ widgets = [fuel_shock |-> f, tax_hike |-> t, subsidy |-> s]
          /\ fuel_shock = f
          /\ tax_hike = t
          /\ subsidy = s
    /\ pc = "risk"
    /\ errors = 0
    /\ exc = ""
    /\ passes = 1
    /\ shocked = FALSE

TransformNext ==
    \/ ComputeLiveRisk
    \/ ComputeColor

TransformSpec == TransformInit /\ [][TransformNext]_vars

(* ------------------------------ claims --------------------------------- *)
Rows == 1..Len(df.rows)
HasLiveRisk == "Live_Risk" \in df.cols
HasColor == "color" \in df.cols
NumericBase(i) == df.rows[i].Base_Risk.k = "num"
BaseOf(i) == df.rows[i].Base_Risk.v
LiveRiskOf(i) == df.rows[i].Live_Risk.v

\* the adjustment written over the integers, from the thresholds and amounts
FuelBonus(f) == IF f <= 5 THEN 0 ELSE IF f <= 20 THEN 10 ELSE 35
TaxBonus(t) == IF t > 2 THEN 2 * t ELSE 0
SubsidyCut(s) == IF s THEN 20 ELSE 0
UnclampedSum(i) ==
    BaseOf(i) + FuelBonus(fuel_shock) + TaxBonus(tax_hike) - SubsidyCut(subsidy)
Least(a, b) == IF a < b THEN a ELSE b
ControlsAtDefault == fuel_shock = 0 /\ tax_hike = 0 /\ subsidy = FALSE

\* C1: for a numeric Base_Risk and any in-range controls Live_Risk is never
\* above 100, and there is no floor: whenever the unclamped sum is below 100
\* the result is that sum, negative values included.
C1_CappedNoFloor ==
    HasLiveRisk =>
        \A i \in Rows :
            NumericBase(i) =>
                /\ df.rows[i].Live_Risk.k = "num"
                /\ LiveRiskOf(i) <= 100
                /\ (UnclampedSum(i) < 100 => LiveRiskOf(i) = UnclampedSum(i))

C1_Witness ==
    /\ HasLiveRisk
    /\ subsidy /\ fuel_shock = 0 /\ tax_hike = 0
    /\ \E i \in Rows : BaseOf(i) < 20 /\ LiveRiskOf(i) < 0

\* C2: with the controls at their defaults (0, 0, off) and Base_Risk in
\* [0, 100], Live_Risk equals Base_Risk.
C2_IdentityAtDefaults ==
    (HasLiveRisk /\ ControlsAtDefault) =>
        \A i \in Rows :
            (NumericBase(i) /\ BaseOf(i) \in 0..100) =>
                df.rows[i].Live_Risk = df.rows[i].Base_Risk

C2_Witness ==
    /\ HasLiveRisk /\ ControlsAtDefault
    /\ \E i \in Rows : NumericBase(i) /\ BaseOf(i) = 100
                       /\ LiveRiskOf(i) = 100

\* C3: with tax_hike = 0 and no subsidy the fuel bonuses use strict
\* thresholds and are cumulative: nothing up to 5, 10 above 5 and up to 20,
\* 10 + 25 above 20, before the cap at 100.
C3_FuelTiers ==
    (HasLiveRisk /\ tax_hike = 0 /\ ~subsidy) =>
        \A i \in Rows :
            NumericBase(i) =>
                /\ fuel_shock <= 5 =>
                      LiveRiskOf(i) = Least(BaseOf(i), 100)
                /\ (fuel_shock > 5 /\ fuel_shock <= 20) =>
                      LiveRiskOf(i) = Least(BaseOf(i) + 10, 100)
                /\ fuel_shock > 20 =>
                      LiveRiskOf(i) = Least(BaseOf(i) + 10 + 25, 100)

C3_Witness ==
    /\ HasLiveRisk /\ tax_hike = 0 /\ ~subsidy /\ fuel_shock = 20
    /\ \E i \in Rows : NumericBase(i) /\ BaseOf(i) = 50 /\ LiveRiskOf(i) = 60

\* C4: the color is decided by the risk value alone: at least 75 is red
\* (critical), at least 50 and below 75 is orange (warning), below 50 is
\* green (stable); 75 and 50 belong to the upper bucket; every row's color
\* is the bucket of that row's Live_Risk.
C4_ColorBuckets ==
    HasColor =>
        \A i \in Rows :
            df.rows[i].Live_Risk.k = "num" =>
                /\ LiveRiskOf(i) >= 75 => df.rows[i].color = "#FF0000"
                /\ (LiveRiskOf(i) >= 50 /\ LiveRiskOf(i) < 75) =>
                      df.rows[i].color = "#FFA500"
                /\ LiveRiskOf(i) < 50 => df.rows[i].color = "#00FF00"

C4_Witness ==
    /\ HasColor
    /\ \E i \in Rows : df.rows[i].Live_Risk = Num(75)
                       /\ df.rows[i].color = "#FF0000"

\* C5 as stated: base 60, fuel_shock 12, tax_hike 0, no subsidy gives
\* Live_Risk 75 and the critical color.
C5_Case == fuel_shock = 12 /\ tax_hike = 0 /\ ~subsidy
C5_AsStated ==
    (HasColor /\ C5_Case) =>
        \A i \in Rows :
            df.rows[i].Base_Risk = Num(60) =>
                /\ df.rows[i].Live_Risk = Num(75)
                /\ df.rows[i].color = "#FF0000"

\* C5 amended: base 60, fuel_shock 12, tax_hike 0, no subsidy gives
\* Live_Risk 70 (only the +10 tier above 5 applies) and the warning color.
C5_Amended ==
    (HasColor /\ C5_Case) =>
        \A i \in Rows :
            df.rows[i].Base_Risk = Num(60) =>
                /\ df.rows[i].Live_Risk = Num(70)
                /\ df.rows[i].color = "#FFA500"

C5_Witness ==
    /\ HasColor /\ C5_Case
    /\ \E i \in Rows : df.rows[i].Base_Risk = Num(60)

\* C6 as stated: base 90, no fuel shock, no tax hike, subsidy active gives
\* Live_Risk 65 and the warning color.
C6_Case == fuel_shock = 0 /\ tax_hike = 0 /\ subsidy
C6_AsStated ==
    (HasColor /\ C6_Case) =>
        \A i \in Rows :
            df.rows[i].Base_Risk = Num(90) =>
                /\ df.rows[i].Live_Risk = Num(65)
                /\ df.rows[i].color = "#FFA500"

\* C6 amended: base 90, no fuel shock, no tax hike, subsidy active gives
\* Live_Risk 70 (the subsidy subtracts 20) and the warning color.
C6_Amended ==
    (HasColor /\ C6_Case) =>
        \A i \in Rows :
            df.rows[i].Base_Risk = Num(90) =>
                /\ df.rows[i].Live_Risk = Num(70)
                /\ df.rows[i].color = "#FFA500"

C6_Witness ==
    /\ HasColor /\ C6_Case
    /\ \E i \in Rows : df.rows[i].Base_Risk = Num(90)

\* C7: on any load failure (file missing, unparseable, or lacking a required
\* column) the pass ends in the "data unavailable" state, reported once, and
\* no Live_Risk, color or map_size is computed.
RequiredColumns == {"Base_Risk", "Population"}
LoadFailure ==
    data_csv.status # "ok" \/ ~(RequiredColumns \subseteq data_csv.cols)
C7_LoadFailureHalts ==
    LoadFailure =>
        /\ df.cols \cap {"Live_Risk", "color", "map_size"} = {}
        /\ pc \in Terminal => (pc = "stopped" /\ errors = 1 /\ exc = "")

\* C8: a row whose Base_Risk is missing or non-numeric is never given a
\* Live_Risk number and never assigned a color bucket.
C8_BadRowFails ==
    \A i \in Rows :
        df.rows[i].Base_Risk.k \in {"nan", "str"} =>
            /\ df.rows[i].Live_Risk.k # "num"
            /\ df.rows[i].color = "absent"

\* C9: across render passes the loaded table is immutable (Base_Risk and
\* Population of every row keep their loaded values, in the cache and in the
\* frame of the pass), the derived fields start empty in every pass and are
\* a function of the loaded base and the current controls only, and with
\* the controls back at (0, 0, off) Live_Risk is Base_Risk again.
C9_NoCarryOver ==
    /\ cache.hit => cache.value = FrameOf(data_csv)
    /\ pc \in {"load", "controls", "risk"} =>
          df.cols \cap {"Live_Risk", "color", "map_size"} = {}
    /\ df # NoFrame =>
          /\ Len(df.rows) = Len(data_csv.rows)
          /\ \A i \in Rows :
                /\ df.rows[i].Base_Risk = FrameOf(data_csv).rows[i].Base_Risk
                /\ df.rows[i].Population = FrameOf(data_csv).rows[i].Population
    /\ HasLiveRisk =>
          \A i \in Rows :
              LET loaded == FrameOf(data_csv).rows[i].Base_Risk
              IN  loaded.k = "num" =>
                    /\ LiveRiskOf(i) =
                         Least(loaded.v + FuelBonus(fuel_shock)
                                 + TaxBonus(tax_hike) - SubsidyCut(subsidy), 100)
                    /\ (ControlsAtDefault /\ loaded.v \in 0..100) =>
                          df.rows[i].Live_Risk = loaded

C9_Witness ==
    /\ passes >= 3 /\ shocked /\ pc = "done" /\ ControlsAtDefault
    /\ \E i \in Rows : NumericBase(i)
                       /\ df.rows[i].Live_Risk = df.rows[i].Base_Risk

\* C10: for every numeric base and in-range controls Live_Risk is
\* min(base + F + T - S, 100): F the fuel bonus (0, 10 or 35), T twice the
\* tax hike above 2 and 0 otherwise, S 20 with the subsidy; the cap is
\* applied last, after the subsidy.
C10_Formula ==
    HasLiveRisk =>
        \A i \in Rows :
            NumericBase(i) =>
                df.rows[i].Live_Risk = Num(Least(UnclampedSum(i), 100))

C10_Witness ==
    /\ HasLiveRisk /\ fuel_shock = 30 /\ tax_hike = 0 /\ subsidy
    /\ \E i \in Rows : BaseOf(i) = 95 /\ LiveRiskOf(i) = 100

====
